---- MODULE Spec2Model ----
(***************************************************************************)
(* A model of the packet decoding engine: the Channel hand-off between the *)
(* capture producer and the decode worker (Kernel::run), the handler       *)
(* registry (Kernel::on / Kernel::clear) and the TCP flow tracker          *)
(* (TCP::decode, TCP::Session).                                            *)
(***************************************************************************)
EXTENDS Integers, Sequences, FiniteSets, TLC

\* ------------------------------------------------------------------------
\* Bounds of the model
\* ------------------------------------------------------------------------
MaxSend == 3
\* number of slots of the channel's pool
ChanCap == 2
\* handler ids issued in one run
MaxHid == 3
\* registry calls a single callback makes
MaxCbOps == 2
\* events defined by the decoder's modules
NumEvents == 2
\* events one packet pushes
MaxEvents == 2

VARIABLES
  \* Channel<T>: the FIFO, the free pool, the closed mark, the slots' records
  ch_queue, ch_free, ch_closed, slot_idx,
  \* provider thread (test/Channel.cc)
  send_count_, p_pc, p_i, p_idx, p_d,
  \* consumer thread (test/Channel.cc)
  c_pc, c_d, prev_idx, recv_count_, seq_mismatch_,
  \* Kernel: registry and counters
  handlers_, handlers_cap, handler_map_, global_hdlr_id_, recv_pkt_, recv_size_,
  \* Kernel::run: position, the Property's events, the range-for's iterators
  wpc, prop_events, ev_i, it_pos, it_end, it_stale, it_buf, entry, cb_ops,
  \* what the current packet's dispatch has done so far
  inv_log, fire_start, fired,
  \* Session::make_key: the two endpoints, the key of each direction
  k_src, k_dst, k_fwd, k_rev,
  \* Stream::send: the stream, its state before the call, the arguments,
  \* the value returned
  s_stream, s_old, s_in, s_ret, s_pc,
  \* TCP: the session table, the counters, what the last packet's decode
  \* published in the Property, the number of packets decoded
  ssn_table_, ssn_count_, curr_ts_, init_ts_, prop, npkts,
  \* the width of the sequence numbers in this run, the packets decoded so
  \* far (kept by the specifications that follow single packets)
  seq_bits, pkts,
  \* the last call of on() or clear(): the call and the value returned, the
  \* registry before it, and how often clear() has returned true for each id
  api_call, api_old, clear_true

chanVars == <<ch_queue, ch_free, ch_closed, slot_idx>>
provVars == <<send_count_, p_pc, p_i, p_idx, p_d>>
consVars == <<c_pc, c_d, prev_idx, recv_count_, seq_mismatch_>>
regVars  == <<handlers_, handlers_cap, handler_map_, global_hdlr_id_>>
iterVars == <<it_pos, it_end, it_stale, it_buf, entry>>
runVars  == <<recv_pkt_, recv_size_, wpc, prop_events, ev_i, cb_ops,
              inv_log, fire_start, fired>>
kernVars == <<regVars, iterVars, runVars>>

keyVars  == <<k_src, k_dst, k_fwd, k_rev>>
sendVars == <<s_stream, s_old, s_in, s_ret, s_pc>>
flowVars == <<ssn_table_, ssn_count_, curr_ts_, init_ts_, prop, npkts>>
tcpVars  == <<keyVars, sendVars, flowVars, seq_bits, pkts>>
callVars == <<api_call, api_old, clear_true>>

vars == <<chanVars, provVars, consVars, kernVars, tcpVars, callVars>>

Slots == 1..ChanCap
Events == 1..NumEvents

\* ------------------------------------------------------------------------
\* Channel<T>
\* ------------------------------------------------------------------------

\* retain(): a writable slot of the pool; blocks while the pool is empty
ChRetain(s) ==
  /\ s \in ch_free
  /\ ch_free' = ch_free \ {s}

\* push(slot): enqueue at the tail
ChPush(s) == ch_queue' = Append(ch_queue, s)

\* pull(): the head of the queue; blocks while empty and not closed
ChPullSlot == ch_queue # <<>>

\* pull() returns null: closed and drained
ChPullNull == ch_queue = <<>> /\ ch_closed

\* release(slot): back to the free pool
ChRelease(s) == ch_free' = ch_free \cup {s}

\* close(): mark the end of the stream
ChClose == ch_closed' = TRUE

\* ------------------------------------------------------------------------
\* provider (test/Channel.cc)
\* ------------------------------------------------------------------------

ProviderNextIdx_Stuck(idx) == idx

\* idx++
ProviderNextIdx(idx) == idx + 1

\* d = ch->retain(), while i < send_count_
P_Retain ==
  /\ p_pc = "retain"
  /\ p_i < send_count_
  /\ \E s \in Slots :
       /\ ChRetain(s)
       /\ p_d' = s
  /\ p_pc' = "fill"
  /\ UNCHANGED <<ch_queue, ch_closed, slot_idx, send_count_, p_i, p_idx>>
  /\ UNCHANGED <<consVars, kernVars>>
  /\ UNCHANGED <<tcpVars, callVars>>

\* d->idx_ = idx
P_Fill ==
  /\ p_pc = "fill"
  /\ slot_idx' = [slot_idx EXCEPT ![p_d] = p_idx]
  /\ p_pc' = "push"
  /\ UNCHANGED <<ch_queue, ch_free, ch_closed, send_count_, p_i, p_idx, p_d>>
  /\ UNCHANGED <<consVars, kernVars>>
  /\ UNCHANGED <<tcpVars, callVars>>

\* ch->push(d); idx++
P_Push ==
  /\ p_pc = "push"
  /\ ChPush(p_d)
  /\ p_idx' = ProviderNextIdx(p_idx)
  /\ p_i' = p_i + 1
  /\ p_d' = 0
  /\ p_pc' = "retain"
  /\ UNCHANGED <<ch_free, ch_closed, slot_idx, send_count_>>
  /\ UNCHANGED <<consVars, kernVars>>
  /\ UNCHANGED <<tcpVars, callVars>>

\* ch->close() once the loop has ended
P_Close ==
  /\ p_pc = "retain"
  /\ p_i >= send_count_
  /\ ChClose
  /\ p_pc' = "done"
  /\ UNCHANGED <<ch_queue, ch_free, slot_idx, send_count_, p_i, p_idx, p_d>>
  /\ UNCHANGED <<consVars, kernVars>>
  /\ UNCHANGED <<tcpVars, callVars>>

\* ------------------------------------------------------------------------
\* consumer (test/Channel.cc)
\* ------------------------------------------------------------------------

\* d = ch->pull(), not null
C_Pull ==
  /\ c_pc = "pull"
  /\ ChPullSlot
  /\ c_d' = Head(ch_queue)
  /\ ch_queue' = Tail(ch_queue)
  /\ c_pc' = "check"
  /\ UNCHANGED <<ch_free, ch_closed, slot_idx, prev_idx, recv_count_, seq_mismatch_>>
  /\ UNCHANGED <<provVars, kernVars>>
  /\ UNCHANGED <<tcpVars, callVars>>

\* ch->pull() returned null: the loop ends
C_PullNull ==
  /\ c_pc = "pull"
  /\ ChPullNull
  /\ c_pc' = "done"
  /\ UNCHANGED <<chanVars, c_d, prev_idx, recv_count_, seq_mismatch_>>
  /\ UNCHANGED <<provVars, kernVars>>
  /\ UNCHANGED <<tcpVars, callVars>>

\* recv_count_ += 1; the sequence check; prev_idx = d->idx_
C_Check ==
  /\ c_pc = "check"
  /\ recv_count_' = recv_count_ + 1
  /\ seq_mismatch_' = IF prev_idx + 1 # slot_idx[c_d]
                        THEN seq_mismatch_ + 1 ELSE seq_mismatch_
  /\ prev_idx' = slot_idx[c_d]
  /\ c_pc' = "release"
  /\ UNCHANGED <<chanVars, c_d>>
  /\ UNCHANGED <<provVars, kernVars>>
  /\ UNCHANGED <<tcpVars, callVars>>

\* ch->release(d)
C_Release ==
  /\ c_pc = "release"
  /\ ChRelease(c_d)
  /\ c_d' = 0
  /\ c_pc' = "pull"
  /\ UNCHANGED <<ch_queue, ch_closed, slot_idx, prev_idx, recv_count_, seq_mismatch_>>
  /\ UNCHANGED <<provVars, kernVars>>
  /\ UNCHANGED <<tcpVars, callVars>>

\* ------------------------------------------------------------------------
\* Initial states
\* ------------------------------------------------------------------------

ChanInit ==
  /\ ch_queue = <<>>
  /\ ch_free = Slots
  /\ ch_closed = FALSE
  /\ slot_idx = [s \in Slots |-> 0]

ProvInit ==
  /\ send_count_ \in 0..MaxSend
  /\ p_pc = "retain"
  /\ p_i = 0
  /\ p_idx = 1
  /\ p_d = 0

ConsInit ==
  /\ c_pc = "pull"
  /\ c_d = 0
  /\ prev_idx = 0
  /\ recv_count_ = 0
  /\ seq_mismatch_ = 0

\* Kernel::Kernel(): no handler, the per-event vectors empty
KernInit ==
  /\ handlers_ = [e \in Events |-> <<>>]
  /\ handlers_cap = [e \in Events |-> 0]
  /\ handler_map_ = <<>>
  /\ global_hdlr_id_ = 0
  /\ recv_pkt_ = 0
  /\ recv_size_ = 0
  /\ wpc = "pull"
  /\ prop_events = <<>>
  /\ ev_i = 0
  /\ it_pos = 0
  /\ it_end = 0
  /\ it_stale = FALSE
  /\ it_buf = <<>>
  /\ entry = 0
  /\ cb_ops = 0
  /\ inv_log = <<>>
  /\ fire_start = {}
  /\ fired = <<>>

\* ------------------------------------------------------------------------
\* Handler registry (Kernel::on, Kernel::clear)
\* ------------------------------------------------------------------------

\* the sentinel lookup_event_id gives for a name no module defined
EventNone == 0

\* names handed to on(): k in Events is the name of event k, 0 is a name
\* that no module defined
EventNames == 0..NumEvents

\* dec_.lookup_event_id(event_name)
LookupEventId(name) == IF name \in Events THEN name ELSE EventNone

\* the live entries registered for event eid
EntriesOf(eid) == {h \in DOMAIN handler_map_ : handler_map_[h] = eid}

\* the per-event vector the worker's range-for is walking
InLoop == wpc \in {"iter", "call", "incb"}
CurEid == prop_events[ev_i + 1]

PushFront(vec, hid) == <<hid>> \o vec

\* handlers_[eid].push_back(entry)
PushBack(vec, hid) == Append(vec, hid)

\* the capacity std::vector takes when push_back finds size() == capacity()
GrowCap(c) == IF c = 0 THEN 1 ELSE 2 * c

\* the first slot of the vector holding entry hid (0: none)
FindSlot(vec, hid) ==
  IF \E i \in DOMAIN vec : vec[i] = hid
    THEN CHOOSE i \in DOMAIN vec :
           /\ vec[i] = hid
           /\ \A j \in DOMAIN vec : vec[j] = hid => i <= j
    ELSE 0

Tombstone_Erase(vec, hid) ==
  [i \in 1..(Len(vec) - 1) |->
     IF i < FindSlot(vec, hid) THEN vec[i] ELSE vec[i + 1]]

\* handler_set[i] = nullptr for the first slot whose entry has this id
Tombstone(vec, hid) ==
  [i \in DOMAIN vec |-> IF i = FindSlot(vec, hid) THEN 0 ELSE vec[i]]

\* on(event_name, cb) for a defined event: a new id, the entry in
\* handler_map_, push_back on the event's vector.  A push_back that finds
\* the vector full moves it to a new buffer and frees the old one: iterators
\* a range-for took from a non-empty vector dangle from then on (those of an
\* empty vector point at no buffer).
RegOn(eid) ==
  /\ eid # EventNone
  /\ global_hdlr_id_ < MaxHid
  /\ LET hid == global_hdlr_id_ + 1
         old == handlers_[eid]
         realloc == Len(old) = handlers_cap[eid]
     IN /\ global_hdlr_id_' = hid
        /\ handler_map_' = [h \in DOMAIN handler_map_ \cup {hid} |->
                              IF h = hid THEN eid ELSE handler_map_[h]]
        /\ handlers_' = [handlers_ EXCEPT ![eid] = PushBack(old, hid)]
        /\ handlers_cap' = [handlers_cap EXCEPT ![eid] =
                              IF realloc THEN GrowCap(@) ELSE @]
        /\ IF /\ realloc /\ InLoop /\ CurEid = eid
              /\ it_end > 0 /\ ~it_stale
             THEN it_stale' = TRUE /\ it_buf' = old
             ELSE UNCHANGED <<it_stale, it_buf>>

\* on(event_name, cb) for an unknown name: Handler::NONE, nothing changes
RegOnNone(eid) ==
  /\ eid = EventNone
  /\ UNCHANGED <<regVars, it_stale, it_buf>>

\* clear(hid): false for an id handler_map_ does not hold; else the entry is
\* erased from the map, its slot is nulled in the vector as it is now, and
\* the entry is deleted
RegClear(hid) ==
  /\ IF hid \in DOMAIN handler_map_
       THEN LET eid == handler_map_[hid]
            IN /\ handler_map_' = [h \in DOMAIN handler_map_ \ {hid} |->
                                     handler_map_[h]]
               /\ handlers_' = [handlers_ EXCEPT ![eid] = Tombstone(@, hid)]
       ELSE UNCHANGED <<handler_map_, handlers_>>
  /\ UNCHANGED <<handlers_cap, global_hdlr_id_, it_stale, it_buf>>

\* ------------------------------------------------------------------------
\* Kernel::run
\* ------------------------------------------------------------------------

\* the events one decode can push into the Property
EventLists ==
  UNION {[1..n -> Events] : n \in 0..MaxEvents}

\* pkt->cap_len() of the idx-th record
CapLen(idx) == 20 * idx

AfterDispatchReturn == "done"

\* the end of the while body: back to channel_.pull()
AfterDispatch == "pull"

\* pkt = channel_.pull(), not null; the counters; decode fills the Property
W_Pull ==
  /\ wpc = "pull"
  /\ ChPullSlot
  /\ ch_queue' = Tail(ch_queue)
  /\ recv_pkt_' = recv_pkt_ + 1
  /\ recv_size_' = recv_size_ + CapLen(slot_idx[Head(ch_queue)])
  /\ \E evs \in EventLists : prop_events' = evs
  /\ ev_i' = 0
  /\ fired' = <<>>
  /\ inv_log' = <<>>
  /\ fire_start' = {}
  /\ wpc' = "ev"
  /\ UNCHANGED <<ch_free, ch_closed, slot_idx, cb_ops>>
  /\ UNCHANGED <<provVars, consVars, regVars, iterVars>>
  /\ UNCHANGED <<tcpVars, callVars>>

\* channel_.pull() returned null: run() returns
W_PullNull ==
  /\ wpc = "pull"
  /\ ChPullNull
  /\ wpc' = "done"
  /\ UNCHANGED <<recv_pkt_, recv_size_, prop_events, ev_i, cb_ops,
                 inv_log, fire_start, fired>>
  /\ UNCHANGED <<chanVars, provVars, consVars, regVars, iterVars>>
  /\ UNCHANGED <<tcpVars, callVars>>

\* i < ev_size: the range-for over handlers_[eid] takes begin() and end()
W_Event ==
  /\ wpc = "ev"
  /\ ev_i < Len(prop_events)
  /\ it_pos' = 1
  /\ it_end' = Len(handlers_[CurEid])
  /\ it_stale' = FALSE
  /\ it_buf' = <<>>
  /\ entry' = 0
  /\ inv_log' = <<>>
  /\ fire_start' = EntriesOf(CurEid)
  /\ fired' = Append(fired, CurEid)
  /\ wpc' = "iter"
  /\ UNCHANGED <<recv_pkt_, recv_size_, prop_events, ev_i, cb_ops>>
  /\ UNCHANGED <<chanVars, provVars, consVars, regVars>>
  /\ UNCHANGED <<tcpVars, callVars>>

\* i == ev_size: the packet is done
W_EventsDone ==
  /\ wpc = "ev"
  /\ ev_i >= Len(prop_events)
  /\ wpc' = AfterDispatch
  /\ prop_events' = <<>>
  /\ ev_i' = 0
  /\ inv_log' = <<>>
  /\ fire_start' = {}
  /\ fired' = <<>>
  /\ UNCHANGED <<recv_pkt_, recv_size_, cb_ops>>
  /\ UNCHANGED <<chanVars, provVars, consVars, regVars, iterVars>>
  /\ UNCHANGED <<tcpVars, callVars>>

\* the buffer the iterator points into: the vector's, or the freed one
IterBuf == IF it_stale THEN it_buf ELSE handlers_[CurEid]

\* auto entry = *it; a null entry is skipped
W_Iter ==
  /\ wpc = "iter"
  /\ it_pos <= it_end
  /\ entry' = IterBuf[it_pos]
  /\ IF IterBuf[it_pos] = 0
       THEN /\ it_pos' = it_pos + 1
            /\ wpc' = "iter"
       ELSE /\ it_pos' = it_pos
            /\ wpc' = "call"
  /\ UNCHANGED <<it_end, it_stale, it_buf>>
  /\ UNCHANGED <<recv_pkt_, recv_size_, prop_events, ev_i, cb_ops,
                 inv_log, fire_start, fired>>
  /\ UNCHANGED <<chanVars, provVars, consVars, regVars>>
  /\ UNCHANGED <<tcpVars, callVars>>

\* it == end: the next event
W_IterEnd ==
  /\ wpc = "iter"
  /\ it_pos > it_end
  /\ ev_i' = ev_i + 1
  /\ it_pos' = 0
  /\ it_end' = 0
  /\ it_stale' = FALSE
  /\ it_buf' = <<>>
  /\ entry' = 0
  /\ wpc' = "ev"
  /\ UNCHANGED <<recv_pkt_, recv_size_, prop_events, cb_ops,
                 inv_log, fire_start, fired>>
  /\ UNCHANGED <<chanVars, provVars, consVars, regVars>>
  /\ UNCHANGED <<tcpVars, callVars>>

\* (entry->callback())(prop) on an entry that is still allocated
W_Call ==
  /\ wpc = "call"
  /\ entry \in DOMAIN handler_map_
  /\ inv_log' = Append(inv_log, entry)
  /\ cb_ops' = 0
  /\ wpc' = "incb"
  /\ UNCHANGED <<recv_pkt_, recv_size_, prop_events, ev_i, fire_start, fired>>
  /\ UNCHANGED <<chanVars, provVars, consVars, regVars, iterVars>>
  /\ UNCHANGED <<tcpVars, callVars>>

\* (entry->callback())(prop) on an entry clear() has deleted, when the freed
\* memory still holds the callback: it runs
W_CallDeleted ==
  /\ wpc = "call"
  /\ entry \notin DOMAIN handler_map_
  /\ inv_log' = Append(inv_log, entry)
  /\ cb_ops' = 0
  /\ wpc' = "incb"
  /\ UNCHANGED <<recv_pkt_, recv_size_, prop_events, ev_i, fire_start, fired>>
  /\ UNCHANGED <<chanVars, provVars, consVars, regVars, iterVars>>
  /\ UNCHANGED <<tcpVars, callVars>>

\* the same call when the freed memory no longer holds it: the worker faults
W_CallFault ==
  /\ wpc = "call"
  /\ entry \notin DOMAIN handler_map_
  /\ wpc' = "fault"
  /\ UNCHANGED <<recv_pkt_, recv_size_, prop_events, ev_i, cb_ops,
                 inv_log, fire_start, fired>>
  /\ UNCHANGED <<chanVars, provVars, consVars, regVars, iterVars>>
  /\ UNCHANGED <<tcpVars, callVars>>

\* *it through an iterator into a freed buffer, when the read faults (when
\* it does not, W_Iter reads what the buffer held when it was freed)
W_IterFault ==
  /\ wpc = "iter"
  /\ it_pos <= it_end
  /\ it_stale
  /\ wpc' = "fault"
  /\ UNCHANGED <<recv_pkt_, recv_size_, prop_events, ev_i, cb_ops,
                 inv_log, fire_start, fired>>
  /\ UNCHANGED <<chanVars, provVars, consVars, regVars, iterVars>>
  /\ UNCHANGED <<tcpVars, callVars>>

\* the callback returns: ++it
W_Return ==
  /\ wpc = "incb"
  /\ it_pos' = it_pos + 1
  /\ entry' = 0
  /\ cb_ops' = 0
  /\ wpc' = "iter"
  /\ UNCHANGED <<it_end, it_stale, it_buf>>
  /\ UNCHANGED <<recv_pkt_, recv_size_, prop_events, ev_i,
                 inv_log, fire_start, fired>>
  /\ UNCHANGED <<chanVars, provVars, consVars, regVars>>
  /\ UNCHANGED <<tcpVars, callVars>>

\* the running callback calls on(name, cb)
Cb_On ==
  /\ wpc = "incb"
  /\ cb_ops < MaxCbOps
  /\ \E name \in EventNames :
       \/ RegOn(LookupEventId(name))
       \/ RegOnNone(LookupEventId(name))
  /\ cb_ops' = cb_ops + 1
  /\ UNCHANGED <<it_pos, it_end, entry>>
  /\ UNCHANGED <<recv_pkt_, recv_size_, wpc, prop_events, ev_i,
                 inv_log, fire_start, fired>>
  /\ UNCHANGED <<chanVars, provVars, consVars>>
  /\ UNCHANGED <<tcpVars, callVars>>

\* the running callback calls clear(hid) on another handler's id
Cb_Clear ==
  /\ wpc = "incb"
  /\ cb_ops < MaxCbOps
  /\ \E hid \in 1..(MaxHid + 1) :
       /\ hid # entry
       /\ RegClear(hid)
  /\ cb_ops' = cb_ops + 1
  /\ UNCHANGED <<it_pos, it_end, entry>>
  /\ UNCHANGED <<recv_pkt_, recv_size_, wpc, prop_events, ev_i,
                 inv_log, fire_start, fired>>
  /\ UNCHANGED <<chanVars, provVars, consVars>>
  /\ UNCHANGED <<tcpVars, callVars>>

\* another thread calls on(name, cb)
Api_On ==
  /\ \E name \in EventNames :
       \/ RegOn(LookupEventId(name))
       \/ RegOnNone(LookupEventId(name))
  /\ UNCHANGED <<it_pos, it_end, entry>>
  /\ UNCHANGED <<runVars, chanVars, provVars, consVars>>
  /\ UNCHANGED <<tcpVars, callVars>>

\* another thread calls clear(hid)
Api_Clear ==
  /\ \E hid \in 1..(MaxHid + 1) : RegClear(hid)
  /\ UNCHANGED <<it_pos, it_end, entry>>
  /\ UNCHANGED <<runVars, chanVars, provVars, consVars>>
  /\ UNCHANGED <<tcpVars, callVars>>

\* the worker is between two packets, or has returned
Quiet == wpc \in {"pull", "done"}

\* on(name, cb) while the worker is not dispatching
Quiet_On == Quiet /\ Api_On

\* clear(hid) while the worker is not dispatching
Quiet_Clear == Quiet /\ Api_Clear

\* ------------------------------------------------------------------------
\* TCP (modules/tcp.cc): flags, sequence arithmetic, endpoints
\* ------------------------------------------------------------------------

\* the flag bits of the TCP header
FIN == 1
SYN == 2
RST == 4
PUSH == 8
ACK == 16

\* uint32_t sequence numbers, scaled to seq_bits bits: every sum and
\* difference of sequence numbers is taken modulo SeqMod.  SeqBits is the
\* width of the runs that draw the sequence numbers of every packet freely
SeqBits == 1
SeqMod == 2 ^ seq_bits
\* payload bytes of one segment
MaxSegLen == 1
\* bytes of an address
AddrLen == 2
\* packets decoded in one run whatever the session does; a run is followed
\* one packet further for each step its session has made towards CLOSED
MaxPkts == 4
\* segments parked in one session's seg_map_
MaxParked == 1
\* microseconds between two consecutive packets
TimeStep == 5

RECURSIVE BitAnd(_, _)
\* a & b on unsigned integers
BitAnd(a, b) ==
  IF a = 0 \/ b = 0
    THEN 0
    ELSE (a % 2) * (b % 2) + 2 * BitAnd(a \div 2, b \div 2)

\* truncation of a sum to the width of uint32_t
U32(x) == x % SeqMod

U32Sub_NoWrap(a, b) == a - b

\* a - b on uint32_t: the difference wraps around
U32Sub(a, b) == (a - b + SeqMod) % SeqMod

\* an endpoint: the address bytes the lower layer put into the Property and
\* the port in host order
Endpoint(addr, port) == [addr |-> addr, port |-> port]

\* the two endpoints of the tracked flow: one address, two ports
FlowAddr == [i \in 1..AddrLen |-> 10]
FlowEps == {Endpoint(FlowAddr, 1), Endpoint(FlowAddr, 2)}

\* ------------------------------------------------------------------------
\* Session::make_key
\* ------------------------------------------------------------------------

RECURSIVE memcmp_from(_, _, _, _)
memcmp_from(a, b, i, n) ==
  IF i > n
    THEN 0
    ELSE IF a[i] # b[i]
           THEN a[i] - b[i]
           ELSE memcmp_from(a, b, i + 1, n)

\* ::memcmp(a, b, n): the sign of the first differing byte pair
memcmp(a, b, n) == memcmp_from(a, b, 1, n)

\* the bytes of a uint16_t as key->append(&port, sizeof(port)) copies them
PortBytes(port) == <<port % 256, port \div 256>>

SrcFirst_NoPort(rc, src_port, dst_port) == rc >= 0

\* rc > 0 || (rc == 0 && src_port > dst_port)
SrcFirst(rc, src_port, dst_port) ==
  rc > 0 \/ (rc = 0 /\ src_port > dst_port)

\* make_key(p, key): the greater endpoint first
make_key(src, dst) ==
  LET rc == memcmp(src.addr, dst.addr, Len(src.addr))
  IN IF SrcFirst(rc, src.port, dst.port)
       THEN src.addr \o PortBytes(src.port) \o dst.addr \o PortBytes(dst.port)
       ELSE dst.addr \o PortBytes(dst.port) \o src.addr \o PortBytes(src.port)

\* byte values and ports the key is computed over
KeyBytes == {0, 1, 200}
KeyPorts == {1, 2, 256}
KeyEndpoints ==
  {Endpoint(a, p) : a \in [1..AddrLen -> KeyBytes], p \in KeyPorts}

\* no key computed yet
NoKey == <<-1>>

\* make_key on the packet src -> dst
KeyForward ==
  /\ k_fwd = NoKey
  /\ k_fwd' = make_key(k_src, k_dst)
  /\ UNCHANGED <<k_src, k_dst, k_rev>>
  /\ UNCHANGED <<sendVars, flowVars, seq_bits, pkts, callVars>>
  /\ UNCHANGED <<chanVars, provVars, consVars, kernVars>>

\* make_key on the packet dst -> src
KeyReverse ==
  /\ k_rev = NoKey
  /\ k_rev' = make_key(k_dst, k_src)
  /\ UNCHANGED <<k_src, k_dst, k_fwd>>
  /\ UNCHANGED <<sendVars, flowVars, seq_bits, pkts, callVars>>
  /\ UNCHANGED <<chanVars, provVars, consVars, kernVars>>

\* ------------------------------------------------------------------------
\* Session::Stream
\* ------------------------------------------------------------------------

\* the value of a member the constructor leaves uninitialised
Uninit == -1

\* Stream(addr, addr_len, port): ack_ and win_size_ are not initialised
Stream(ep) ==
  [addr_ |-> ep.addr, port_ |-> ep.port,
   has_base_seq_ |-> FALSE, base_seq_ |-> 0, next_seq_ |-> 0,
   ack_ |-> Uninit, win_size_ |-> Uninit, tx_size_ |-> 0]

\* match(addr, addr_len, port)
match(st, addr, port) ==
  /\ Len(st.addr_) = Len(addr)
  /\ st.port_ = port
  /\ memcmp(addr, st.addr_, Len(addr)) = 0

\* is_src(p)
is_src(st, src) == match(st, src.addr, src.port)

\* in_window(seq): always true
in_window(st, seq) == TRUE

\* to_rel_seq(seq)
to_rel_seq(st, seq) == U32Sub(seq, st.base_seq_)

\* set_base_seq(seq, seg_len)
set_base_seq(st, seq, seg_len) ==
  [st EXCEPT !.has_base_seq_ = TRUE,
             !.base_seq_ = seq,
             !.next_seq_ = U32(1 + seg_len)]

\* inc_seq(step = 1)
inc_seq(st) == [st EXCEPT !.next_seq_ = U32(@ + 1)]

\* recv(ack, win_size)
recv(st, ack, win_size) == [st EXCEPT !.ack_ = ack, !.win_size_ = win_size]

\* send(flags, seq, ack, data_len): the value returned and the stream after
send(st, flags, seq, ack, data_len) ==
  IF ~st.has_base_seq_
    THEN [ret |-> TRUE, st |-> st]
    ELSE LET rel_seq == U32Sub(seq, st.base_seq_)
         IN IF st.next_seq_ = rel_seq
              THEN [ret |-> TRUE,
                    st |-> [st EXCEPT !.next_seq_ = U32(@ + data_len)]]
              ELSE [ret |-> FALSE, st |-> st]

\* the flag bytes of the packets: SYN, SYN|ACK, ACK, FIN|PUSH|ACK
RawFlags == {SYN, SYN + ACK, ACK, FIN + PUSH + ACK}

\* the streams and the arguments send() is called on
SendStreams ==
  {[Stream(Endpoint(FlowAddr, 1)) EXCEPT !.has_base_seq_ = h,
                                         !.base_seq_ = b,
                                         !.next_seq_ = n,
                                         !.tx_size_ = t] :
     h \in BOOLEAN, b \in 0..(SeqMod - 1), n \in 0..(SeqMod - 1),
     t \in {0, 7}}
SendInputs ==
  [flags : RawFlags, seq : 0..(SeqMod - 1), ack : {0},
   data_len : 0..MaxSegLen]

\* one call of send() on the stream
SendCall ==
  /\ s_pc = "call"
  /\ LET r == send(s_stream, s_in.flags, s_in.seq, s_in.ack, s_in.data_len)
     IN /\ s_ret' = r.ret
        /\ s_stream' = r.st
  /\ s_pc' = "done"
  /\ UNCHANGED <<s_old, s_in>>
  /\ UNCHANGED <<keyVars, flowVars, seq_bits, pkts, callVars>>
  /\ UNCHANGED <<chanVars, provVars, consVars, kernVars>>

\* ------------------------------------------------------------------------
\* TCP::Session
\* ------------------------------------------------------------------------

\* enum Status, in declaration order
StatusOrder ==
  <<"NONE", "SYN_SENT", "SYNACK_SENT", "ESTABLISHED", "CLOSING", "CLOSED">>

\* the events the module defines
ev_new == "new_session"
ev_estb == "established"
ev_close == "closed"

\* buf_ == nullptr
NoBuf == <<-1>>
\* a Property value that was not set for this packet
NoData == <<-1>>
NoVal == -1
\* a struct timeval nothing has been copied into
TvUnset == [tv_sec |-> -1, tv_usec |-> -1]

\* the handshake observed so far on a flow: how many packets of the minimal
\* handshake have been seen in order (-1: the flow did not follow it), the
\* sequence number and the timestamp of its SYN
NoHandshake == [stage |-> -1, x |-> 0, t0 |-> TvUnset]

\* no byte accepted on either stream
NoBytes == [client |-> 0, server |-> 0]

\* Session(p, tcp, ssn_id): the source of the first packet is the client.
\* The g_ fields record the session's history: g_hist the values status_
\* took, g_fin the sides that sent a packet carrying FIN, g_closed the
\* number of closed events pushed, g_hs the handshake observed, g_base the
\* calls of set_base_seq (the stream, the flags of the segment, the status
\* before), g_seen the sides whose SYN (client) or SYN|ACK (server) has been
\* observed, g_off the sides on which a call of set_base_seq and the first
\* such packet did not coincide, g_acc the bytes send() accepted in
\* sequence during the last decode, g_tx those bytes over all decodes.
Session(src, dst, ssn_id) ==
  [id_ |-> ssn_id, status_ |-> "NONE",
   client_ |-> Stream(src), server_ |-> Stream(dst), closing_ |-> "null",
   ts_init_ |-> TvUnset, ts_estb_ |-> TvUnset, ts_rtt_ |-> TvUnset,
   buf_ |-> NoBuf, seg_map_ |-> <<>>,
   g_hist |-> <<"NONE">>, g_fin |-> {}, g_closed |-> 0,
   g_hs |-> NoHandshake,
   g_base |-> <<>>, g_seen |-> {}, g_off |-> {},
   g_acc |-> NoBytes, g_tx |-> NoBytes]

\* the stream a Stream* names
StreamOf(ssn, side) == IF side = "client" THEN ssn.client_ ELSE ssn.server_
WithStream(ssn, side, st) ==
  IF side = "client"
    THEN [ssn EXCEPT !.client_ = st]
    ELSE [ssn EXCEPT !.server_ = st]
Peer(side) == IF side = "client" THEN "server" ELSE "client"

\* timersub(a, b, res)
timersub(a, b) ==
  LET sec == a.tv_sec - b.tv_sec
      usec == a.tv_usec - b.tv_usec
  IN IF usec < 0
       THEN [tv_sec |-> sec - 1, tv_usec |-> usec + 1000000]
       ELSE [tv_sec |-> sec, tv_usec |-> usec]

RttUsec_SecOnly(ts_rtt) == ts_rtt.tv_sec * 1000000

\* (ts_rtt_.tv_sec * 1000000) + ts_rtt_.tv_usec
RttUsec(ts_rtt) == ts_rtt.tv_sec * 1000000 + ts_rtt.tv_usec

\* new_status = this->status_ = st
EnterStatus(ssn, st) ==
  [ssn EXCEPT !.status_ = st, !.g_hist = Append(@, st)]

\* sender->set_base_seq(seq, seg_len) from trans_state
SetBase(ssn, flags, sender, seq, seg_len) ==
  WithStream([ssn EXCEPT !.g_base =
                Append(@, [side |-> sender, flags |-> flags,
                           status |-> ssn.g_hist[Len(ssn.g_hist) - 1]])],
             sender, set_base_seq(StreamOf(ssn, sender), seq, seg_len))

SynAckNext_Stay == "SYN_SENT"

\* the status a SYN|ACK of the server seen in SYN_SENT leads to
SynAckNext == "SYNACK_SENT"

FinInEstablished_Closed == "CLOSED"

\* the status a FIN seen in ESTABLISHED leads to
FinInEstablished == "CLOSING"

\* trans_state(flags, sender, seq, seg_len, tv): the status entered (NONE
\* when there is no transition) and the session after
trans_state(ssn, flags, sender, seq, seg_len, tv) ==
  LET stay == [new_status |-> "NONE", ssn |-> ssn]
      snd == StreamOf(ssn, sender)
  IN CASE ssn.status_ = "NONE" ->
            IF flags = SYN /\ sender = "client"
              THEN [new_status |-> "SYN_SENT",
                    ssn |-> SetBase([EnterStatus(ssn, "SYN_SENT")
                                       EXCEPT !.ts_init_ = tv],
                                    flags, sender, seq, seg_len)]
              ELSE stay
       [] ssn.status_ = "SYN_SENT" ->
            IF flags = SYN + ACK /\ sender = "server"
              THEN [new_status |-> SynAckNext,
                    ssn |-> SetBase(EnterStatus(ssn, SynAckNext),
                                    flags, sender, seq, seg_len)]
              ELSE stay
       [] ssn.status_ = "SYNACK_SENT" ->
            IF flags = ACK /\ sender = "client"
              THEN [new_status |-> "ESTABLISHED",
                    ssn |-> [EnterStatus(ssn, "ESTABLISHED")
                               EXCEPT !.ts_estb_ = tv,
                                      !.ts_rtt_ = timersub(tv, ssn.ts_init_)]]
              ELSE stay
       [] ssn.status_ = "ESTABLISHED" ->
            IF BitAnd(flags, FIN) > 0
              THEN [new_status |-> FinInEstablished,
                    ssn |-> WithStream(
                              [EnterStatus(ssn, FinInEstablished)
                                 EXCEPT !.closing_ = sender],
                              sender, inc_seq(snd))]
              ELSE stay
       [] ssn.status_ = "CLOSING" ->
            IF BitAnd(flags, FIN) > 0 /\ ssn.closing_ # sender
              THEN [new_status |-> "CLOSED",
                    ssn |-> WithStream(EnterStatus(ssn, "CLOSED"),
                              sender, inc_seq(snd))]
              ELSE stay
       [] OTHER -> stay

\* Segment(ptr, len, seq, flags)
Segment(seg, seq, flags) == [data |-> seg, seq_ |-> seq, flags_ |-> flags]

ParkSegment_Drop(seg_map, rel_seq, sg) == seg_map

ChainAppend_Front(chain, sg) == <<sg>> \o chain

\* Segment::append(seg): behind the tail of the chain
ChainAppend(chain, sg) == Append(chain, sg)

\* seg_map_.insert of a new chain, or append to the chain of that key
ParkSegment(seg_map, rel_seq, sg) ==
  IF rel_seq \in DOMAIN seg_map
    THEN [seg_map EXCEPT ![rel_seq] = ChainAppend(@, sg)]
    ELSE [k \in DOMAIN seg_map \cup {rel_seq} |->
            IF k = rel_seq THEN <<sg>> ELSE seg_map[k]]

EraseKey_Keep(seg_map, key) == seg_map

\* seg_map_.erase(it)
EraseKey(seg_map, key) == [k \in DOMAIN seg_map \ {key} |-> seg_map[k]]

\* the segments parked in a seg_map_
ParkedCount(seg_map) ==
  Cardinality(UNION {{<<k, i>> : i \in 1..Len(seg_map[k])} :
                       k \in DOMAIN seg_map})

\* p->push_event(ev)
push_event(p, ev) == [p EXCEPT !.events = Append(@, ev)]

RECURSIVE decode_stream(_, _, _, _, _, _, _)
RECURSIVE deliver_chain(_, _, _, _, _, _)

\* decode_stream(p, flags, seq, ack, seg_len, seg_ptr, win_size, sender,
\* recver) on c = the session and the Property; the result is both after
decode_stream(c, flags, seq, ack, seg, win_size, sender) ==
  LET r == send(StreamOf(c.ssn, sender), flags, seq, ack, Len(seg))
  IN IF ~r.ret
       THEN IF in_window(StreamOf(c.ssn, sender), seq)
              THEN [c EXCEPT !.ssn.seg_map_ =
                      ParkSegment(@, to_rel_seq(StreamOf(c.ssn, sender), seq),
                                  Segment(seg, seq, flags))]
              ELSE c
       ELSE
         LET s0 == IF StreamOf(c.ssn, sender).has_base_seq_
                     THEN [c.ssn EXCEPT !.g_acc[sender] = @ + Len(seg)]
                     ELSE c.ssn
             s1 == WithStream(WithStream(s0, sender, r.st), Peer(sender),
                     recv(StreamOf(c.ssn, Peer(sender)), ack, win_size))
             t == trans_state(s1, flags, sender, seq, Len(seg), c.prop.tv)
             p1 == IF t.new_status = "ESTABLISHED"
                     THEN [push_event(c.prop, ev_estb)
                             EXCEPT !.rtt_3wh = RttUsec(t.ssn.ts_rtt_)]
                     ELSE c.prop
             p2 == IF t.new_status = "CLOSED"
                     THEN push_event(p1, ev_close)
                     ELSE p1
             s2 == IF t.new_status = "CLOSED"
                     THEN [t.ssn EXCEPT !.g_closed = @ + 1]
                     ELSE t.ssn
             s3 == IF s2.buf_ # NoBuf
                     THEN [s2 EXCEPT !.buf_ = @ \o seg]
                     ELSE s2
             p3 == [p2 EXCEPT !.data =
                      IF s3.buf_ # NoBuf THEN s3.buf_ ELSE seg]
             next == StreamOf(s3, sender).next_seq_
         IN IF DOMAIN s3.seg_map_ # {} /\ next \in DOMAIN s3.seg_map_
              THEN deliver_chain(
                     [ssn |-> [s3 EXCEPT
                                 !.buf_ = IF @ = NoBuf THEN seg ELSE @,
                                 !.seg_map_ = EraseKey(@, next)],
                      prop |-> p3],
                     s3.seg_map_[next], 1, ack, win_size, sender)
              ELSE [ssn |-> s3, prop |-> p3]

\* while (tgt) { decode_stream(p, tgt->flags(), tgt->seq(), ...) }
deliver_chain(c, chain, i, ack, win_size, sender) ==
  IF i > Len(chain)
    THEN c
    ELSE deliver_chain(
           decode_stream(c, chain[i].flags_, chain[i].seq_, ack,
                         chain[i].data, win_size, sender),
           chain, i + 1, ack, win_size, sender)

\* Session::decode(p, flags, seq, ack, seg_len, seg_ptr, win_size)
Session_decode(ssn, p, flags, seq, ack, seg, win_size) ==
  LET s0 == [ssn EXCEPT !.buf_ = NoBuf, !.g_acc = NoBytes]
      sender == IF is_src(s0.client_, p.src) THEN "client" ELSE "server"
      c == decode_stream([ssn |-> s0, prop |-> p], flags, seq, ack, seg,
                         win_size, sender)
      tx_c == c.ssn.server_.tx_size_
      tx_s == c.ssn.client_.tx_size_
  IN [ssn |-> c.ssn,
      prop |-> [c.prop EXCEPT !.tx_server = tx_s, !.tx_client = tx_c]]

\* ------------------------------------------------------------------------
\* LruHash<Session*>
\* ------------------------------------------------------------------------

\* put(ttl, key, value)
LruPut(tbl, ttl, key, value) ==
  [k \in DOMAIN tbl \cup {key} |->
     IF k = key THEN [data |-> value, ttl |-> ttl] ELSE tbl[k]]

\* step(delta) followed by the drain of the expired queue: the entries whose
\* residual TTL drops to zero leave the table and are deleted
LruStep(tbl, delta) ==
  [k \in {j \in DOMAIN tbl : tbl[j].ttl - delta > 0} |->
     [tbl[k] EXCEPT !.ttl = @ - delta]]

\* the value the table holds under the key, with the session replaced by its
\* state after the decode (the table holds a pointer to it)
LruUpdate(tbl, key, value) == [tbl EXCEPT ![key].data = value]

\* ------------------------------------------------------------------------
\* TCP::decode
\* ------------------------------------------------------------------------

\* the TTL a new session is put with
SsnTtl == 300

\* timestamps: the first packet just before a second boundary, the next
\* ones TimeStep microseconds apart
StartTime == [tv_sec |-> 0, tv_usec |-> 999995]
TvAdd(t, us) ==
  [tv_sec |-> t.tv_sec + ((t.tv_usec + us) \div 1000000),
   tv_usec |-> (t.tv_usec + us) % 1000000]
PktTime(n) == TvAdd(StartTime, TimeStep * (n - 1))

\* the payload bytes of a segment: each byte names its sender and its
\* position in the sequence space
Payload(src, seq, len) ==
  [i \in 1..len |-> 100 * src.port + U32(seq + i - 1)]

\* acknowledgement numbers and window sizes of the packets
PktAcks == {0}
PktWins == {100}

\* the n-th packet: a well-formed TCP segment between the two endpoints
Packets(n) ==
  {[src |-> s, dst |-> d, flags |-> f, seq |-> q, ack |-> a, window |-> w,
    segment |-> Payload(s, q, l), tv |-> PktTime(n)] :
     s \in FlowEps, d \in FlowEps, f \in RawFlags, q \in 0..(SeqMod - 1),
     l \in 0..MaxSegLen, a \in PktAcks, w \in PktWins}

\* the Property after prop.init(pkt) and the lower layers
PropOf(pkt) ==
  [tv |-> pkt.tv, src |-> pkt.src, dst |-> pkt.dst,
   events |-> <<>>, data |-> NoData, rtt_3wh |-> NoVal, id |-> NoVal,
   tx_server |-> NoVal, tx_client |-> NoVal]

\* what the module has put into the Property: the events pushed and the
\* values of data, rtt_3wh, id, tx_server, tx_client
Published(p) ==
  [events |-> p.events, data |-> p.data, rtt_3wh |-> p.rtt_3wh, id |-> p.id,
   tx_server |-> p.tx_server, tx_client |-> p.tx_client]

\* the Property before any packet
NoProp ==
  [events |-> <<>>, data |-> NoData, rtt_3wh |-> NoVal, id |-> NoVal,
   tx_server |-> NoVal, tx_client |-> NoVal]

\* the handshake observed on the flow after this packet
Handshake(hs, isnew, pkt, side) ==
  IF isnew
    THEN IF pkt.flags = SYN /\ Len(pkt.segment) = 0
           THEN [stage |-> 1, x |-> pkt.seq, t0 |-> pkt.tv]
           ELSE NoHandshake
    ELSE IF hs.stage = 1 /\ pkt.flags = SYN + ACK /\ side = "server"
           THEN [hs EXCEPT !.stage = 2]
           ELSE IF /\ hs.stage = 2 /\ pkt.flags = ACK /\ side = "client"
                   /\ pkt.seq = (hs.x + 1) % SeqMod
                  THEN [hs EXCEPT !.stage = 3]
                  ELSE NoHandshake

\* the flags the state machine looks at
MaskFlags(flags) ==
  BitAnd(BitAnd(flags, FIN + SYN + RST + ACK), SYN + ACK + FIN + RST)

\* the packet is a SYN of the client or a SYN|ACK of the server
IsOpening(pkt, side) ==
  \/ side = "client" /\ MaskFlags(pkt.flags) = SYN
  \/ side = "server" /\ MaskFlags(pkt.flags) = SYN + ACK

\* the history of the session after this packet
Observe(old, new, isnew, pkt) ==
  LET side == IF is_src(old.client_, pkt.src) THEN "client" ELSE "server"
      calls == {new.g_base[i].side :
                  i \in (Len(old.g_base) + 1)..Len(new.g_base)}
      first == IsOpening(pkt, side) /\ side \notin old.g_seen
  IN [new EXCEPT
        !.g_fin = IF BitAnd(pkt.flags, FIN) > 0 THEN @ \cup {side} ELSE @,
        !.g_hs = Handshake(old.g_hs, isnew, pkt, side),
        !.g_seen = IF IsOpening(pkt, side) THEN @ \cup {side} ELSE @,
        !.g_off = @ \cup (calls \ (IF first THEN {side} ELSE {}))
                    \cup (IF first /\ side \notin calls THEN {side} ELSE {}),
        !.g_tx = [s \in {"client", "server"} |-> @[s] + new.g_acc[s]]]

\* the packets a run is followed for
PktBudget ==
  IF \E k \in DOMAIN ssn_table_ : ssn_table_[k].data.status_ = "CLOSED"
    THEN MaxPkts + 2
    ELSE IF \E k \in DOMAIN ssn_table_ : ssn_table_[k].data.status_ = "CLOSING"
           THEN MaxPkts + 1
           ELSE MaxPkts

NextSsnId_Same(count) == count

\* this->ssn_count_ += 1
NextSsnId(count) == count + 1

\* the session management of decode(pd, prop) and Session::decode on a
\* packet whose header and options are complete: the tracker's members, the
\* table, the session and the Property after
Decoded(pkt) ==
  LET ts == pkt.tv.tv_sec
      adv == curr_ts_ < ts
      tbl == IF adv /\ init_ts_
               THEN LruStep(ssn_table_, ts - curr_ts_)
               ELSE ssn_table_
      flags == MaskFlags(pkt.flags)
      key == make_key(pkt.src, pkt.dst)
      hit == key \in DOMAIN tbl
      count == IF hit THEN ssn_count_ ELSE NextSsnId(ssn_count_)
      ssn == IF hit THEN tbl[key].data
                    ELSE Session(pkt.src, pkt.dst, count)
      tbl2 == IF hit THEN tbl ELSE LruPut(tbl, SsnTtl, key, ssn)
      p1 == IF hit THEN PropOf(pkt) ELSE push_event(PropOf(pkt), ev_new)
      p2 == [p1 EXCEPT !.id = ssn.id_]
      r == Session_decode(ssn, p2, flags, pkt.seq, pkt.ack, pkt.segment,
                          pkt.window)
  IN /\ curr_ts_' = IF adv THEN ts ELSE curr_ts_
     /\ init_ts_' = (init_ts_ \/ adv)
     /\ ssn_count_' = count
     /\ ssn_table_' = LruUpdate(tbl2, key, Observe(ssn, r.ssn, ~hit, pkt))
     /\ prop' = Published(r.prop)

\* decode(pd, prop) of a packet whose header and options are complete
TCP_decode ==
  /\ npkts < PktBudget
  /\ \E pkt \in Packets(npkts + 1) :
       /\ pkt.src # pkt.dst
       /\ Decoded(pkt)
  /\ \A k \in DOMAIN ssn_table_' :
       ParkedCount(ssn_table_'[k].data.seg_map_) <= MaxParked
  /\ npkts' = npkts + 1
  /\ UNCHANGED <<keyVars, sendVars, seq_bits, pkts, callVars>>
  /\ UNCHANGED <<chanVars, provVars, consVars, kernVars>>

\* ------------------------------------------------------------------------
\* Initial states of the TCP module
\* ------------------------------------------------------------------------

\* make_key is computed over every pair of endpoints
KeyInit ==
  /\ k_src \in KeyEndpoints
  /\ k_dst \in KeyEndpoints
  /\ k_fwd = NoKey
  /\ k_rev = NoKey

KeyIdle ==
  /\ k_src = Endpoint(FlowAddr, 1)
  /\ k_dst = Endpoint(FlowAddr, 2)
  /\ k_fwd = NoKey
  /\ k_rev = NoKey

\* send() is called on every stream state with every argument
SendInit ==
  /\ s_stream \in SendStreams
  /\ s_old = s_stream
  /\ s_in \in SendInputs
  /\ s_ret = FALSE
  /\ s_pc = "call"

SendIdle ==
  /\ s_stream = Stream(Endpoint(FlowAddr, 1))
  /\ s_old = s_stream
  /\ s_in = [flags |-> ACK, seq |-> 0, ack |-> 0, data_len |-> 0]
  /\ s_ret = FALSE
  /\ s_pc = "idle"

\* TCP(): no session, the clock not yet set
FlowInit ==
  /\ ssn_table_ = <<>>
  /\ ssn_count_ = 0
  /\ curr_ts_ = 0
  /\ init_ts_ = FALSE
  /\ prop = NoProp
  /\ npkts = 0

\* the width of the sequence numbers; no packet followed yet
Narrow ==
  /\ seq_bits = SeqBits
  /\ pkts = <<>>

\* no call of on() or clear() made yet
CallIdle ==
  /\ api_call = [op |-> "none", arg |-> 0, ret |-> 0]
  /\ api_old = <<>>
  /\ clear_true = [h \in 1..(MaxHid + 1) |-> 0]

TcpInit == Narrow /\ KeyIdle /\ SendIdle /\ FlowInit /\ CallIdle

\* ------------------------------------------------------------------------
\* The channel test: one provider, one consumer
\* ------------------------------------------------------------------------

InitChan == ChanInit /\ ProvInit /\ ConsInit /\ KernInit /\ TcpInit

NextChan ==
  \/ P_Retain
  \/ P_Fill
  \/ P_Push
  \/ P_Close
  \/ C_Pull
  \/ C_PullNull
  \/ C_Check
  \/ C_Release

SpecChan == InitChan /\ [][NextChan]_vars

\* C1: with one provider sending records 1..N and then closing, and one
\* consumer pulling until null, under every interleaving the consumer has
\* seen no sequence mismatch, has received no more records than were pushed,
\* and ends having received exactly N records.
C1_ChannelFifo ==
  /\ seq_mismatch_ = 0
  /\ recv_count_ <= p_i
  /\ prev_idx = recv_count_
  /\ (c_pc = "done" => recv_count_ = send_count_)

\* the consumer has ended after receiving more records than the pool has slots
C1_Witness ==
  /\ c_pc = "done"
  /\ recv_count_ >= 3
  /\ recv_count_ = send_count_

\* ------------------------------------------------------------------------
\* The kernel: producer, worker, registry calls
\* ------------------------------------------------------------------------

InitKernel == ChanInit /\ ProvInit /\ ConsInit /\ KernInit /\ TcpInit

\* the threads' steps
Provider == P_Retain \/ P_Fill \/ P_Push \/ P_Close
Worker ==
  \/ W_Pull \/ W_PullNull \/ W_Event \/ W_EventsDone
  \/ W_Iter \/ W_IterEnd \/ W_Call \/ W_Return

\* The kernel with registry calls made while the worker is between packets:
\* the producer pushes and closes, the worker decodes and dispatches.  Both
\* threads are scheduled fairly.
Next ==
  \/ P_Retain
  \/ P_Fill
  \/ P_Push
  \/ P_Close
  \/ W_Pull
  \/ W_PullNull
  \/ W_Event
  \/ W_EventsDone
  \/ W_Iter
  \/ W_IterEnd
  \/ W_Call
  \/ W_Return
  \/ Quiet_On
  \/ Quiet_Clear

Spec ==
  /\ InitKernel
  /\ [][Next]_vars
  /\ WF_vars(Provider)
  /\ WF_vars(Worker)

\* The kernel on one thread: registry calls between packets and from inside
\* the callbacks the worker runs.
NextSeq ==
  \/ P_Retain
  \/ P_Fill
  \/ P_Push
  \/ P_Close
  \/ W_Pull
  \/ W_PullNull
  \/ W_Event
  \/ W_EventsDone
  \/ W_Iter
  \/ W_IterEnd
  \/ W_Call
  \/ W_CallDeleted
  \/ W_CallFault
  \/ W_IterFault
  \/ W_Return
  \/ Cb_On
  \/ Cb_Clear
  \/ Quiet_On
  \/ Quiet_Clear

SpecSeq == InitKernel /\ [][NextSeq]_vars

\* The kernel with registry calls from another thread at any time; the
\* callbacks themselves leave the registry alone.
NextConc ==
  \/ P_Retain
  \/ P_Fill
  \/ P_Push
  \/ P_Close
  \/ W_Pull
  \/ W_PullNull
  \/ W_Event
  \/ W_EventsDone
  \/ W_Iter
  \/ W_IterEnd
  \/ W_Call
  \/ W_CallDeleted
  \/ W_CallFault
  \/ W_IterFault
  \/ W_Return
  \/ Api_On
  \/ Api_Clear

SpecConc == InitKernel /\ [][NextConc]_vars

IsPrefix(s, t) ==
  /\ Len(s) <= Len(t)
  /\ \A i \in 1..Len(s) : s[i] = t[i]

Range(s) == {s[i] : i \in DOMAIN s}

\* C2: run() returns only after pull() has handed out every pushed packet
\* (the channel closed and drained, recv_pkt_ equal to the number pushed),
\* and once the producer has pushed its N packets and closed the channel,
\* run() eventually returns with recv_pkt_ = N.
C2_ShutdownDrains ==
  /\ [](wpc = "done" =>
          /\ ch_closed
          /\ ch_queue = <<>>
          /\ recv_pkt_ = p_i
          /\ recv_pkt_ = send_count_)
  /\ (p_pc = "done") ~> (wpc = "done" /\ recv_pkt_ = send_count_)

\* run() has returned after the producer pushed two packets and closed
C2_Witness ==
  /\ wpc = "done"
  /\ p_pc = "done"
  /\ send_count_ = 2
  /\ recv_pkt_ = 2

\* C3: the events of a packet are dispatched in the order they were pushed;
\* within one event's dispatch the callbacks run in the order of their on()
\* calls (ids increase), only handlers registered for that event run, and
\* when the dispatch of the event ends every handler registered for it has
\* run exactly once, cleared slots being skipped.
C3_DispatchOrder ==
  /\ IsPrefix(fired, prop_events)
  /\ \A i, j \in DOMAIN inv_log : i < j => inv_log[i] < inv_log[j]
  /\ InLoop =>
       /\ \A h \in Range(inv_log) : h \in EntriesOf(CurEid)
       /\ Len(fired) = ev_i + 1
  /\ (wpc = "ev" /\ fired # <<>>) =>
       Range(inv_log) = EntriesOf(fired[Len(fired)])

\* the second event of a packet has run handlers 1 and 3 in that order,
\* handler 2 of the same event having been cleared
C3_Witness ==
  /\ wpc = "ev"
  /\ Len(fired) = 2
  /\ inv_log = <<1, 3>>
  /\ handlers_[fired[2]] = <<1, 0, 3>>

\* C4: once clear(hid) has returned true the callback registered under hid
\* is never invoked again: every step that enters a callback enters the
\* callback of an entry handler_map_ still holds.
C4_Cancellation ==
  [][(wpc = "call" /\ wpc' = "incb") => entry \in DOMAIN handler_map_]_vars

\* C5: registry calls from another thread never leave the worker about to
\* call an entry clear() has deleted, nor walking a per-event vector that
\* on() has moved to a new buffer.
C5_RegistryExclusion ==
  /\ (wpc = "call" => entry \in DOMAIN handler_map_)
  /\ (InLoop => ~it_stale)
\* ------------------------------------------------------------------------
\* The TCP module on its own: make_key, send, the flow tracker
\* ------------------------------------------------------------------------

\* no packet source, no handler: the kernel stays as constructed
KernIdle ==
  /\ ChanInit
  /\ ProvInit
  /\ send_count_ = 0
  /\ ConsInit
  /\ KernInit
  /\ CallIdle

InitKey == Narrow /\ KernIdle /\ KeyInit /\ SendIdle /\ FlowInit

NextKey ==
  \/ KeyForward
  \/ KeyReverse

SpecKey == InitKey /\ [][NextKey]_vars

InitSend == Narrow /\ KernIdle /\ KeyIdle /\ SendInit /\ FlowInit

NextSend == SendCall

SpecSend == InitSend /\ [][NextSend]_vars

InitTcp == Narrow /\ KernIdle /\ KeyIdle /\ SendIdle /\ FlowInit

NextTcp == TCP_decode

SpecTcp == InitTcp /\ [][NextTcp]_vars

\* the sessions in the table
Sessions == {ssn_table_[k].data : k \in DOMAIN ssn_table_}

\* C6: for every pair of endpoints with addresses of equal length, make_key
\* on the packet A:pa -> B:pb and make_key on the packet B:pb -> A:pa give
\* the same key bytes (both addresses and both ports), also when the
\* addresses are equal and only the ports differ and when the two endpoints
\* are identical.
C6_KeySymmetry ==
  (k_fwd # NoKey /\ k_rev # NoKey) =>
    /\ k_fwd = k_rev
    /\ Len(k_fwd) = 2 * AddrLen + 4

\* both keys computed for two endpoints of one address and different ports
C6_Witness ==
  /\ k_fwd # NoKey
  /\ k_rev # NoKey
  /\ k_src.addr = k_dst.addr
  /\ k_src.port < k_dst.port

\* a and b are equal modulo SeqMod
Congruent(a, b) ==
  \E k \in -(MaxSegLen + 2)..(MaxSegLen + 2) : a - b = k * SeqMod

\* C7: send() on a stream without base_seq returns true and changes
\* nothing; with a base_seq it returns true exactly when seq - base_seq
\* equals next_seq modulo the width of the sequence numbers, and then
\* next_seq has advanced by exactly data_len (modulo that width) and nothing
\* else has changed; otherwise it returns false and the stream (next_seq,
\* tx_size) is unchanged.  The absolute seq may be below base_seq.
C7_SendSemantics ==
  s_pc = "done" =>
    IF ~s_old.has_base_seq_
      THEN s_ret /\ s_stream = s_old
      ELSE IF Congruent(s_in.seq - s_old.base_seq_, s_old.next_seq_)
             THEN /\ s_ret
                  /\ s_stream.next_seq_ \in 0..(SeqMod - 1)
                  /\ Congruent(s_stream.next_seq_,
                               s_old.next_seq_ + s_in.data_len)
                  /\ s_stream = [s_old EXCEPT !.next_seq_ = s_stream.next_seq_]
             ELSE ~s_ret /\ s_stream = s_old

\* send() has accepted a segment with payload whose absolute seq has
\* wrapped around below base_seq
C7_Witness ==
  /\ s_pc = "done"
  /\ s_old.has_base_seq_
  /\ s_in.seq < s_old.base_seq_
  /\ s_in.data_len > 0
  /\ s_ret

\* C8: the values status_ has taken in a session, in the order trans_state
\* assigned them (deliveries of parked segments included), are a prefix of
\* NONE, SYN_SENT, SYNACK_SENT, ESTABLISHED, CLOSING, CLOSED: every
\* transition goes exactly one step forward and nothing follows CLOSED.
C8_StateMonotonic ==
  \A ssn \in Sessions :
    /\ Len(ssn.g_hist) <= Len(StatusOrder)
    /\ ssn.g_hist = SubSeq(StatusOrder, 1, Len(ssn.g_hist))
    /\ ssn.status_ = ssn.g_hist[Len(ssn.g_hist)]

\* a session has gone through every status up to CLOSED and has decoded one
\* more packet since
C8_Witness ==
  \E ssn \in Sessions :
    /\ ssn.status_ = "CLOSED"
    /\ Len(ssn.g_hist) = 6
    /\ npkts = 6

\* the microseconds from timestamp a to timestamp b
MicroSeconds(a, b) ==
  (b.tv_sec - a.tv_sec) * 1000000 + b.tv_usec - a.tv_usec

\* C9: on a new flow whose packets are, in order, SYN from A (seq x, no
\* payload), SYN|ACK from B, ACK from A (seq x+1), the first packet pushes
\* new_session only, the second pushes nothing, the third pushes established
\* once with rtt_3wh = the microseconds between the SYN's and the ACK's
\* timestamps; and whenever established is pushed the session has been in
\* SYN_SENT and then SYNACK_SENT before it became ESTABLISHED.
C9_MinimalHandshake ==
  \A ssn \in Sessions :
    ssn.id_ = prop.id =>
      /\ ssn.g_hs.stage = 1 => prop.events = <<ev_new>>
      /\ ssn.g_hs.stage = 2 => prop.events = <<>>
      /\ ssn.g_hs.stage = 3 =>
           /\ prop.events = <<ev_estb>>
           /\ prop.rtt_3wh = MicroSeconds(ssn.g_hs.t0, PktTime(npkts))
      /\ ev_estb \in Range(prop.events) =>
           \E i, j, k \in DOMAIN ssn.g_hist :
             /\ i < j
             /\ j < k
             /\ ssn.g_hist[i] = "SYN_SENT"
             /\ ssn.g_hist[j] = "SYNACK_SENT"
             /\ ssn.g_hist[k] = "ESTABLISHED"

\* the ACK of a minimal handshake has just been decoded, 10 microseconds
\* after the SYN
C9_Witness ==
  \E ssn \in Sessions :
    /\ ssn.g_hs.stage = 3
    /\ ssn.status_ = "ESTABLISHED"
    /\ prop.events = <<ev_estb>>
    /\ prop.rtt_3wh = 10

\* C10: a session in CLOSING has recorded as closing a side that sent a
\* packet carrying FIN, and no closed event has been pushed for it; a
\* session is CLOSED only when both sides have sent a packet carrying FIN (a
\* FIN of the side that sent the first one never closes it), and closed has
\* then been pushed exactly once; closed is never pushed a second time.
C10_FullClose ==
  \A ssn \in Sessions :
    /\ ssn.status_ = "CLOSING" =>
         /\ ssn.closing_ \in ssn.g_fin
         /\ ssn.g_closed = 0
    /\ ssn.status_ = "CLOSED" =>
         /\ ssn.g_fin = {"client", "server"}
         /\ ssn.g_closed = 1
    /\ ssn.g_closed <= 1
    /\ (ssn.id_ = prop.id /\ ev_close \in Range(prop.events)) =>
         ssn.status_ = "CLOSED"

\* ------------------------------------------------------------------------
\* One flow followed packet by packet: the handshake, then data segments
\* ------------------------------------------------------------------------

\* the width of the sequence numbers of the followed flow
DataSeqBits == 4
\* packets of the followed flow: three of the handshake, then data
MaxDataPkts == 6
\* relative sequence numbers the data segments start at
DataSpan == 5
\* payload bytes of a data segment
MaxDataLen == 2
\* payload bytes of each of the two segments of the out-of-order scenario
S4Len == 5

\* the two endpoints: A opens the connection to B
EpA == Endpoint(FlowAddr, 1)
EpB == Endpoint(FlowAddr, 2)

\* initial sequence numbers: A's next data wraps around or not, B's equals
\* A's or not
ClientIsns == {0, 2 ^ DataSeqBits - 3}
ServerIsns == {5, 2 ^ DataSeqBits - 3}

\* a packet of the flow
FlowPkt(n, s, d, f, q, l) ==
  [src |-> s, dst |-> d, flags |-> f, seq |-> q, ack |-> n, window |-> 100 + n,
   segment |-> Payload(s, q, l), tv |-> PktTime(n)]

\* the data segment of len bytes at relative sequence number r of the
\* sender whose initial sequence number is isn
DataPkt(n, s, d, isn, r, l) == FlowPkt(n, s, d, ACK, U32(isn + r), l)

\* where the data segments of A start and how long they are: every short
\* segment, and the segments of the out-of-order scenario
ClientData ==
  {<<r, l>> : r \in 1..DataSpan, l \in 1..MaxDataLen}
    \cup {<<1, S4Len>>, <<1 + S4Len, S4Len>>, <<1 + 2 * S4Len, S4Len>>}
ServerData == {<<1, 1>>, <<2, 1>>}

\* the n-th packet of the followed flow
DataPackets(n) ==
  CASE n = 1 -> {FlowPkt(n, EpA, EpB, SYN, x, 0) : x \in ClientIsns}
    [] n = 2 -> {FlowPkt(n, EpB, EpA, SYN + ACK, y, 0) : y \in ServerIsns}
    [] n = 3 -> {FlowPkt(n, EpA, EpB, ACK, U32(pkts[1].seq + 1), 0)}
    [] OTHER ->
         {DataPkt(n, EpA, EpB, pkts[1].seq, c[1], c[2]) : c \in ClientData}
           \cup
         {DataPkt(n, EpB, EpA, pkts[2].seq, c[1], c[2]) : c \in ServerData}

\* decode(pd, prop) of the next packet of the followed flow
Data_decode ==
  /\ npkts < MaxDataPkts
  /\ \E pkt \in DataPackets(npkts + 1) :
       /\ Decoded(pkt)
       /\ pkts' = Append(pkts, pkt)
  /\ npkts' = npkts + 1
  /\ UNCHANGED <<keyVars, sendVars, seq_bits, callVars>>
  /\ UNCHANGED <<chanVars, provVars, consVars, kernVars>>

\* the sequence numbers are DataSeqBits wide
Wide ==
  /\ seq_bits = DataSeqBits
  /\ pkts = <<>>

InitData == Wide /\ KernIdle /\ KeyIdle /\ SendIdle /\ FlowInit

NextData == Data_decode

SpecData == InitData /\ [][NextData]_vars

\* the last packet decoded
LastPkt == pkts[Len(pkts)]

\* the session of the followed flow
FlowSsn == ssn_table_[make_key(EpA, EpB)].data

\* the packet is the data segment of A at relative sequence number r
IsClientData(pkt, r, l) ==
  /\ pkt.src = EpA
  /\ pkt.seq = U32(pkts[1].seq + r)
  /\ Len(pkt.segment) = l

\* the bytes of the two segments of the scenario: the first S4Len bytes of
\* A's stream ("hello"), and the S4Len bytes at relative sequence number r
\* ("world")
Hello == Payload(EpA, U32(pkts[1].seq + 1), S4Len)
World(r) == Payload(EpA, U32(pkts[1].seq + r), S4Len)

\* scenario S4 with the second half of the data at relative sequence number
\* r: after the handshake A's segment at r comes first and is parked without
\* data published, then A's segment at 1 comes and data is published as the
\* two segments joined, nothing staying parked
S4(r) ==
  (Len(pkts) >= 4 /\ IsClientData(pkts[4], r, S4Len)) =>
     /\ Len(pkts) = 4 =>
          /\ prop.data = NoData
          /\ r \in DOMAIN FlowSsn.seg_map_
          /\ FlowSsn.seg_map_[r] = <<Segment(World(r), pkts[4].seq, ACK)>>
          /\ FlowSsn.client_.next_seq_ = 1
     /\ (Len(pkts) = 5 /\ IsClientData(pkts[5], 1, S4Len)) =>
          /\ prop.data = Hello \o World(r)
          /\ FlowSsn.seg_map_ = <<>>

\* C11: in an ESTABLISHED session with client.next_seq = 1, the client
\* payload at relative seq 1 + S4Len ("world", right behind "hello") and
\* then the payload at relative seq 1 ("hello") give: on the first packet
\* the segment is parked and no data is published; on the second the parked
\* segment is delivered by the recursive step and data is published as
\* "helloworld".
C11_OutOfOrder == S4(1 + S4Len)

\* "hello" has just been decoded after "world" was parked right behind it
C11_Witness ==
  /\ Len(pkts) = 5
  /\ IsClientData(pkts[4], 1 + S4Len, S4Len)
  /\ IsClientData(pkts[5], 1, S4Len)
  /\ FlowSsn.status_ = "ESTABLISHED"
  /\ Len(prop.data) = 2 * S4Len
  /\ FlowSsn.client_.next_seq_ = U32(1 + 2 * S4Len)

\* C11 as stated, with "world" at relative seq 11 = 1 + 2 * S4Len, a gap of
\* S4Len bytes behind "hello"
C11_AsStated == S4(1 + 2 * S4Len)

\* the data each packet publishes when the segments arrive one by one, in
\* packets like pkt, on the session, joined, and the session after the last
RECURSIVE InOrder(_, _, _, _)
InOrder(ssn, pkt, segs, data) ==
  IF segs = <<>>
    THEN [ssn |-> ssn, data |-> data]
    ELSE LET sg == Head(segs)
             r == Session_decode(ssn, PropOf(pkt), sg.flags_, sg.seq_,
                                 pkt.ack, sg.data, pkt.window)
         IN InOrder(r.ssn, pkt, Tail(segs),
                    data \o (IF r.prop.data = NoData THEN <<>>
                                                     ELSE r.prop.data))

\* the segments parked behind relative sequence number a without a gap and
\* one per key, in sequence order
RECURSIVE Run(_, _)
Run(seg_map, a) ==
  IF a \in DOMAIN seg_map /\ Len(seg_map[a]) = 1
     /\ Len(seg_map[a][1].data) > 0
    THEN <<seg_map[a][1]>>
           \o Run(EraseKey(seg_map, a), U32(a + Len(seg_map[a][1].data)))
    ELSE <<>>

\* the session of the packet, before and after its decode
SsnBefore(pkt) == ssn_table_[make_key(pkt.src, pkt.dst)].data
SsnAfter(pkt) == ssn_table_'[make_key(pkt.src, pkt.dst)].data

\* the stream of the session the packet was sent on
SideOf(ssn, pkt) == IF is_src(ssn.client_, pkt.src) THEN "client" ELSE "server"

\* the packet s1 of the step completes a run of parked segments: every
\* parked segment is a data segment of the packet's sender, and together
\* they continue the packet's segment without a gap
Completes(pkt) ==
  /\ make_key(pkt.src, pkt.dst) \in DOMAIN ssn_table_
  /\ LET old == SsnBefore(pkt)
         snd == StreamOf(old, SideOf(old, pkt))
         run == Run(old.seg_map_, U32(snd.next_seq_ + Len(pkt.segment)))
     IN
     /\ snd.has_base_seq_
     /\ to_rel_seq(snd, pkt.seq) = snd.next_seq_
     /\ Len(pkt.segment) > 0
     /\ Len(run) >= 1
     /\ Len(run) = ParkedCount(old.seg_map_)
     /\ \A i \in DOMAIN run :
          /\ run[i].flags_ = ACK
          /\ run[i].data = Payload(pkt.src, run[i].seq_, Len(run[i].data))
          /\ run[i].seq_ =
               IF i = 1 THEN U32(pkt.seq + Len(pkt.segment))
                        ELSE U32(run[i - 1].seq_ + Len(run[i - 1].data))

\* C12: when segments s2..sk of one sender are parked (having arrived in any
\* order) and continue s1 without a gap, the packet carrying s1 publishes
\* data = s1 s2 ... sk in sequence order, leaves seg_map empty, and leaves
\* the session (the sender's next_seq included) as the arrival of s1..sk in
\* order leaves it, the data published by those packets being, joined, the
\* same bytes.
C12_Reassembly ==
  [][(pkts' # pkts /\ Completes(pkts'[Len(pkts')])) =>
       LET pkt == pkts'[Len(pkts')]
           old == SsnBefore(pkt)
           new == SsnAfter(pkt)
           side == SideOf(old, pkt)
           run == Run(old.seg_map_,
                      U32(StreamOf(old, side).next_seq_ + Len(pkt.segment)))
           ord == InOrder([old EXCEPT !.seg_map_ = <<>>], pkt,
                          <<Segment(pkt.segment, pkt.seq, ACK)>> \o run, <<>>)
       IN /\ prop'.data = ord.data
          /\ Len(prop'.data) = new.g_acc[side]
          /\ new.seg_map_ = <<>>
          /\ StreamOf(new, side).next_seq_ = StreamOf(ord.ssn, side).next_seq_
          /\ StreamOf(new, side).next_seq_ =
               U32(StreamOf(old, side).next_seq_ + Len(prop'.data))
  ]_vars

\* s1 has just arrived after s3 and then s2 were parked: three segments of
\* A, four bytes, published at once
C12_Witness ==
  /\ Len(pkts) = 6
  /\ IsClientData(pkts[4], 3, 2)
  /\ IsClientData(pkts[5], 2, 1)
  /\ IsClientData(pkts[6], 1, 1)
  /\ prop.data = Payload(EpA, U32(pkts[1].seq + 1), 4)
  /\ FlowSsn.seg_map_ = <<>>
  /\ FlowSsn.client_.next_seq_ = 5

\* ------------------------------------------------------------------------
\* Several flows and the clock: the session table
\* ------------------------------------------------------------------------

\* packets followed
MaxTablePkts == 3

\* prop->ts() of the packets, in seconds: the start of the clock, one second
\* later, and SsnTtl + 1 seconds after each
TsValues == {0, 1, SsnTtl + 1, SsnTtl + 2}

\* the endpoints of an unrelated flow
EpC == Endpoint(FlowAddr, 3)
EpD == Endpoint(FlowAddr, 4)

\* source and destination of the packets: the flow of A and B in both
\* directions, the unrelated flow, and a packet A sends to itself
TablePairs == {<<EpA, EpB>>, <<EpB, EpA>>, <<EpC, EpD>>, <<EpA, EpA>>}

\* a SYN without payload at the second ts
TablePackets ==
  {[src |-> e[1], dst |-> e[2], flags |-> SYN, seq |-> 0, ack |-> 0,
    window |-> 100, segment |-> <<>>,
    tv |-> [tv_sec |-> ts, tv_usec |-> 0]] :
     e \in TablePairs, ts \in TsValues}

\* decode(pd, prop) of a packet of one of the flows
Table_decode ==
  /\ npkts < MaxTablePkts
  /\ \E pkt \in TablePackets :
       /\ Decoded(pkt)
       /\ pkts' = Append(pkts, pkt)
  /\ npkts' = npkts + 1
  /\ UNCHANGED <<keyVars, sendVars, seq_bits, callVars>>
  /\ UNCHANGED <<chanVars, provVars, consVars, kernVars>>

InitTable == Narrow /\ KernIdle /\ KeyIdle /\ SendIdle /\ FlowInit

NextTable == Table_decode

SpecTable == InitTable /\ [][NextTable]_vars

\* the flow of a packet: the set of its two endpoints
FlowOf(pkt) == {pkt.src, pkt.dst}

\* the ids of the sessions in the table
TableIds == {ssn.id_ : ssn \in Sessions}

\* C13: when the first packet (ts = 0) creates a session and the second, of
\* an unrelated flow, has ts = SsnTtl + 1, the clock is at SsnTtl + 1 after
\* the second packet and the first session has been popped and destroyed;
\* a third packet on the first packet's 4-tuple then misses the table,
\* creates a Session with a new, greater id and pushes new_session again.
C13_Expiry ==
  (/\ Len(pkts) >= 2
   /\ pkts[1].tv.tv_sec = 0
   /\ pkts[1].src # pkts[1].dst
   /\ FlowOf(pkts[2]) \cap FlowOf(pkts[1]) = {}
   /\ pkts[2].tv.tv_sec = SsnTtl + 1) =>
     /\ Len(pkts) = 2 =>
          /\ curr_ts_ = SsnTtl + 1
          /\ 1 \notin TableIds
          /\ make_key(pkts[1].src, pkts[1].dst) \notin DOMAIN ssn_table_
     /\ (Len(pkts) = 3 /\ FlowOf(pkts[3]) = FlowOf(pkts[1])) =>
          /\ prop.events = <<ev_new>>
          /\ prop.id > 1
          /\ 1 \notin TableIds

\* C16: the client and the server stream of every session the tracker has
\* created have distinct (addr, port) pairs, and of the two streams of the
\* session a packet was routed to exactly one matches the packet's source.
C16_DistinctStreams ==
  /\ \A ssn \in Sessions :
       ~match(ssn.server_, ssn.client_.addr_, ssn.client_.port_)
  /\ pkts # <<>> =>
       LET ssn == ssn_table_[make_key(LastPkt.src, LastPkt.dst)].data
       IN is_src(ssn.client_, LastPkt.src) # is_src(ssn.server_, LastPkt.src)

\* a packet has pushed new_session
PushedNew(p) == ev_new \in Range(p.events)

\* C19: a packet pushes new_session exactly when the table holds no live
\* Session for its key (none, or one that this packet's clock expires); the
\* Session then created has id = previous ssn_count + 1, greater than every
\* id in the table; a packet that finds a live Session, in either direction,
\* publishes that Session's id, pushes no new_session and leaves ssn_count;
\* the ids in the table are distinct and lie in 1..ssn_count.
C19_SessionIds ==
  [][pkts' # pkts =>
       LET pkt == pkts'[Len(pkts')]
           key == make_key(pkt.src, pkt.dst)
           live == /\ key \in DOMAIN ssn_table_
                   /\ ssn_table_[key].data.id_ \in TableIds'
       IN /\ PushedNew(prop') <=> ~live
          /\ ~live =>
               /\ prop'.events = <<ev_new>>
               /\ prop'.id = ssn_count_ + 1
               /\ ssn_count_' = ssn_count_ + 1
               /\ \A i \in TableIds : i < prop'.id
          /\ live =>
               /\ prop'.id = ssn_table_[key].data.id_
               /\ ssn_count_' = ssn_count_
          /\ ssn_table_'[key].data.id_ = prop'.id
          /\ TableIds' \subseteq 1..ssn_count_'
          /\ \A j, k \in DOMAIN ssn_table_' :
               j # k => ssn_table_'[j].data.id_ # ssn_table_'[k].data.id_
  ]_vars

\* a third session has been created on the 4-tuple of the first, which had
\* expired; the second is still in the table
C19_Witness ==
  /\ Len(pkts) = 3
  /\ FlowOf(pkts[3]) = FlowOf(pkts[1])
  /\ pkts[3].src = pkts[1].dst
  /\ pkts[3].src # pkts[3].dst
  /\ prop.events = <<ev_new>>
  /\ prop.id = 3
  /\ TableIds = {2, 3}

\* C14: each stream's tx_size is the sum of data_len over the send calls on
\* that stream accepted in sequence, and the tx_server / tx_client published
\* on a packet of the flow are client.tx_size / server.tx_size, the payload
\* bytes sent so far by the client and by the server.
C14_TxAccounting ==
  /\ \A ssn \in Sessions :
       /\ ssn.client_.tx_size_ = ssn.g_tx.client
       /\ ssn.server_.tx_size_ = ssn.g_tx.server
  /\ pkts # <<>> =>
       /\ prop.tx_server = FlowSsn.client_.tx_size_
       /\ prop.tx_client = FlowSsn.server_.tx_size_
       /\ prop.tx_server = FlowSsn.g_tx.client
       /\ prop.tx_client = FlowSsn.g_tx.server

\* C15: whenever the decode of a packet puts its segment into seg_map_ (a
\* new key or a longer chain), the key seq - base_seq is strictly greater
\* than the sender's next_seq at that moment: a segment with
\* rel_seq < next_seq is never stored.
C15_OnlyFuture ==
  [][(/\ pkts' # pkts
      /\ make_key(pkts'[Len(pkts')].src, pkts'[Len(pkts')].dst)
           \in DOMAIN ssn_table_) =>
       LET pkt == pkts'[Len(pkts')]
           old == SsnBefore(pkt)
           new == SsnAfter(pkt)
           snd == StreamOf(old, SideOf(old, pkt))
           rel == to_rel_seq(snd, pkt.seq)
           stored == \/ rel \notin DOMAIN old.seg_map_ /\ rel \in DOMAIN new.seg_map_
                     \/ /\ rel \in DOMAIN old.seg_map_
                        /\ rel \in DOMAIN new.seg_map_
                        /\ Len(new.seg_map_[rel]) > Len(old.seg_map_[rel])
       IN stored => rel > snd.next_seq_
  ]_vars

\* the streams set_base_seq has been called on, in the order of the calls
BaseSides(ssn) == [i \in DOMAIN ssn.g_base |-> ssn.g_base[i].side]

\* set_base_seq has been called at most once on each stream
BaseOnce(ssn) ==
  \A i, j \in DOMAIN ssn.g_base :
    i # j => ssn.g_base[i].side # ssn.g_base[j].side

\* C20 as stated: over any sequence of packets of a flow set_base_seq is
\* called at most once on the client stream and at most once on the server
\* stream, and the call on a stream happens when that stream's first SYN
\* (client) or first SYN|ACK (server) is observed.
C20_AsStated ==
  \A ssn \in Sessions : BaseOnce(ssn) /\ ssn.g_off = {}

\* C20: set_base_seq is called at most once on each stream. The client
\* stream gets its call on the client's first SYN, with the session in
\* NONE; the server stream gets its call on a segment with flags SYN|ACK
\* decoded with the server as sender while the session is in SYN_SENT, so
\* a SYN|ACK of the server observed before the client's SYN sets no base.
C20_BaseOnce ==
  \A ssn \in Sessions :
    /\ BaseOnce(ssn)
    /\ "client" \notin ssn.g_off
    /\ \A i \in DOMAIN ssn.g_base :
         /\ ssn.g_base[i].side = "client" =>
              ssn.g_base[i].flags = SYN /\ ssn.g_base[i].status = "NONE"
         /\ ssn.g_base[i].side = "server" =>
              /\ ssn.g_base[i].flags = SYN + ACK
              /\ ssn.g_base[i].status = "SYN_SENT"
    /\ ssn.client_.has_base_seq_ <=> "client" \in Range(BaseSides(ssn))
    /\ ssn.server_.has_base_seq_ <=> "server" \in Range(BaseSides(ssn))

\* both streams have their base, the server's from a SYN|ACK that was not
\* the first one it sent
C20_Witness ==
  \E ssn \in Sessions :
    /\ BaseSides(ssn) = <<"client", "server">>
    /\ ssn.g_off = {"server"}
    /\ ssn.g_seen = {"client", "server"}

\* ------------------------------------------------------------------------
\* Packets cut short: the worker of the kernel and the header of decode
\* ------------------------------------------------------------------------

\* width of size_t in the run
SizeBits == 16

\* sizeof(struct tcp_header)
HeaderSize == 20

\* bytes the packet holds from the TCP header on, and the data offset field
\* (in 32-bit words) of its header
AvailValues == {HeaderSize - 1, HeaderSize, HeaderSize + 3, HeaderSize + 4,
                HeaderSize + 5}
DoffValues == {4, 5, 6}

\* pd->retain(n) with len bytes left: null if n > end - pos, else the
\* cursor moves on by n
Retain(len, n) ==
  IF n > len THEN [null |-> TRUE, len |-> len]
             ELSE [null |-> FALSE, len |-> len - n]

\* offset = (hdr->offset_ & 0xf0) >> 2
DataOffset(doff) == 4 * doff

\* optlen = offset - sizeof(tcp_header), a size_t
OptLen(offset) == (offset - HeaderSize + 2 ^ SizeBits) % (2 ^ SizeBits)

OptMissing_Never(o) == FALSE

\* opt == nullptr
OptMissing(o) == o.null

\* the header part of decode(pd, prop): whether it returns NONE, and the
\* length of the segment behind header and options
HeaderOf(raw) ==
  LET h == Retain(raw.avail, HeaderSize)
      optlen == OptLen(DataOffset(raw.doff))
      o == IF optlen > 0 THEN Retain(h.len, optlen)
                         ELSE [null |-> FALSE, len |-> h.len]
  IN IF h.null
       THEN [none |-> TRUE, seg_len |-> 0]
       ELSE [none |-> OptMissing(o), seg_len |-> o.len]

\* the n-th record of the channel seen from the TCP layer: a SYN between A
\* and B, avail bytes of it captured, at second n
RawPackets(n) ==
  {[src |-> e[1], dst |-> e[2], flags |-> SYN, seq |-> 0, ack |-> 0,
    window |-> 100, avail |-> a, doff |-> d,
    tv |-> [tv_sec |-> n, tv_usec |-> 0]] :
     e \in {<<EpA, EpB>>, <<EpB, EpA>>}, a \in AvailValues, d \in DoffValues}

\* the packet the session management sees: the segment is what is left
SegmentOf(raw, seg_len) ==
  [src |-> raw.src, dst |-> raw.dst, flags |-> raw.flags, seq |-> raw.seq,
   ack |-> raw.ack, window |-> raw.window, tv |-> raw.tv,
   segment |-> Payload(raw.src, raw.seq, seg_len)]

\* TCP::decode on the record
Raw_decode(raw) ==
  LET h == HeaderOf(raw)
  IN IF h.none
       THEN /\ prop' = Published(PropOf(raw))
            /\ UNCHANGED <<ssn_table_, ssn_count_, curr_ts_, init_ts_>>
       ELSE Decoded(SegmentOf(raw, h.seg_len))

\* one turn of the loop in run() with no handler registered: pull, the
\* counters, decode, the walk over the events
Run_Packet ==
  /\ wpc = "pull"
  /\ ChPullSlot
  /\ ch_queue' = Tail(ch_queue)
  /\ recv_pkt_' = recv_pkt_ + 1
  /\ recv_size_' = recv_size_ + CapLen(slot_idx[Head(ch_queue)])
  /\ \E raw \in RawPackets(recv_pkt_ + 1) :
       /\ Raw_decode(raw)
       /\ pkts' = Append(pkts, raw)
  /\ prop_events' = prop'.events
  /\ ev_i' = Len(prop'.events)
  /\ wpc' = AfterDispatch
  /\ npkts' = npkts + 1
  /\ UNCHANGED <<ch_free, ch_closed, slot_idx, cb_ops, inv_log, fire_start,
                 fired>>
  /\ UNCHANGED <<provVars, consVars, regVars, iterVars>>
  /\ UNCHANGED <<keyVars, sendVars, seq_bits, callVars>>

InitTrunc == InitKernel

NextTrunc ==
  \/ P_Retain
  \/ P_Fill
  \/ P_Push
  \/ P_Close
  \/ Run_Packet
  \/ W_PullNull

SpecTrunc == InitTrunc /\ [][NextTrunc]_vars

\* the header is cut short, or the options the data offset declares are
Truncated(raw) ==
  \/ raw.avail < HeaderSize
  \/ raw.avail >= HeaderSize /\ raw.doff * 4 > raw.avail

\* C17: a packet whose payload is shorter than the 20-byte header, or whose
\* options are cut short, leaves ssn_count, curr_ts, the session table with
\* every Session in it and the event list as they were, pushes no
\* new_session, and is counted in recv_pkt and recv_size.
C17_Truncated ==
  [][(pkts' # pkts /\ Truncated(pkts'[Len(pkts')])) =>
       /\ ssn_count_' = ssn_count_
       /\ curr_ts_' = curr_ts_
       /\ init_ts_' = init_ts_
       /\ ssn_table_' = ssn_table_
       /\ prop'.events = <<>>
       /\ prop_events' = <<>>
       /\ recv_pkt_' = recv_pkt_ + 1
       /\ recv_pkt_' = Len(pkts')
       /\ recv_size_' = recv_size_ + CapLen(slot_idx[Head(ch_queue)])
       /\ recv_size_' > recv_size_
  ]_vars

\* a session exists, and the packet after the one that created it had its
\* options cut short
C17_Witness ==
  /\ Len(pkts) = 2
  /\ ~Truncated(pkts[1])
  /\ pkts[2].avail = HeaderSize + 3
  /\ pkts[2].doff = 6
  /\ ssn_count_ = 1
  /\ curr_ts_ = 1
  /\ recv_pkt_ = 2
  /\ recv_size_ = CapLen(1) + CapLen(2)
  /\ prop.events = <<>>

\* ------------------------------------------------------------------------
\* The registry called from outside: what on() and clear() return
\* ------------------------------------------------------------------------

\* Handler::NONE
HandlerNone == 0

\* the value on() returns
OnRet(eid) ==
  IF eid = EventNone THEN HandlerNone ELSE global_hdlr_id_ + 1

ClearRet_Always(hid) == TRUE

\* the value clear() returns: false if handler_map_.find(hid) is end()
ClearRet(hid) == hid \in DOMAIN handler_map_

\* on(event_name, cb), the worker not running
Call_On ==
  /\ \E name \in EventNames :
       LET eid == LookupEventId(name)
       IN /\ RegOn(eid) \/ RegOnNone(eid)
          /\ api_call' = [op |-> "on", arg |-> name, ret |-> OnRet(eid)]
  /\ api_old' = regVars
  /\ UNCHANGED clear_true
  /\ UNCHANGED <<it_pos, it_end, entry>>
  /\ UNCHANGED <<runVars, chanVars, provVars, consVars, tcpVars>>

\* clear(hid), the worker not running
Call_Clear ==
  /\ \E hid \in 1..(MaxHid + 1) :
       /\ RegClear(hid)
       /\ api_call' = [op |-> "clear", arg |-> hid, ret |-> ClearRet(hid)]
       /\ clear_true' = [clear_true EXCEPT
                           ![hid] = IF ClearRet(hid) THEN @ + 1 ELSE @]
  /\ api_old' = regVars
  /\ UNCHANGED <<it_pos, it_end, entry>>
  /\ UNCHANGED <<runVars, chanVars, provVars, consVars, tcpVars>>

InitReg == Narrow /\ KernIdle /\ KeyIdle /\ SendIdle /\ FlowInit

NextReg == Call_On \/ Call_Clear

SpecReg == InitReg /\ [][NextReg]_vars

\* the id handed to the last clear() had never been issued, or clear() had
\* returned true for it before
StaleId ==
  \/ api_call.arg > api_old[4]
  \/ clear_true[api_call.arg] - (IF api_call.ret THEN 1 ELSE 0) >= 1

\* C18: on() with a name that is not defined returns the NONE sentinel,
\* consumes no handler id and adds no entry; clear() with an id never
\* issued, or already cleared, returns false and changes neither the
\* id-to-entry map nor a per-event vector; clear(hid) returns true at most
\* once for each hid.
C18_ErrorOutcomes ==
  /\ (api_call.op = "on" /\ api_call.arg \notin Events) =>
       /\ api_call.ret = HandlerNone
       /\ regVars = api_old
  /\ (api_call.op = "clear" /\ StaleId) =>
       /\ api_call.ret = FALSE
       /\ regVars = api_old
  /\ \A h \in DOMAIN clear_true : clear_true[h] <= 1

\* an id was cleared, and a second clear() of it has just returned false
\* while other entries are registered
C18_Witness ==
  /\ api_call.op = "clear"
  /\ api_call.ret = FALSE
  /\ clear_true[api_call.arg] = 1
  /\ handler_map_ # <<>>
  /\ regVars = api_old

\* ------------------------------------------------------------------------
\* One flow followed packet by packet: a segment that is parked
\* ------------------------------------------------------------------------

\* the packet of the step finds its session, its sender has a base and the
\* packet is not the one the sender is expected to send next: send()
\* returns false
Refused(pkt) ==
  /\ make_key(pkt.src, pkt.dst) \in DOMAIN ssn_table_
  /\ LET old == SsnBefore(pkt)
         snd == StreamOf(old, SideOf(old, pkt))
     IN /\ snd.has_base_seq_
        /\ to_rel_seq(snd, pkt.seq) # snd.next_seq_

\* C21: when send() returns false the segment goes into seg_map_ under
\* seq - base_seq, as a new chain if the key is absent and behind the tail
\* of the chain if it is present; status, closing, the next_seq of both
\* streams, the receiver's ack and win_size are as before, no event is
\* pushed and no data is published for the packet.
C21_Parking ==
  [][(pkts' # pkts /\ Refused(pkts'[Len(pkts')])) =>
       LET pkt == pkts'[Len(pkts')]
           old == SsnBefore(pkt)
           new == SsnAfter(pkt)
           side == SideOf(old, pkt)
           rel == to_rel_seq(StreamOf(old, side), pkt.seq)
           sg == [data |-> pkt.segment, seq_ |-> pkt.seq,
                  flags_ |-> MaskFlags(pkt.flags)]
       IN /\ DOMAIN new.seg_map_ = DOMAIN old.seg_map_ \cup {rel}
          /\ \A k \in DOMAIN old.seg_map_ \ {rel} :
               new.seg_map_[k] = old.seg_map_[k]
          /\ new.seg_map_[rel] =
               IF rel \in DOMAIN old.seg_map_
                 THEN old.seg_map_[rel] \o <<sg>>
                 ELSE <<sg>>
          /\ new.status_ = old.status_
          /\ new.closing_ = old.closing_
          /\ new.client_ = old.client_
          /\ new.server_ = old.server_
          /\ StreamOf(new, Peer(side)).ack_ # pkt.ack
          /\ StreamOf(new, Peer(side)).win_size_ # pkt.window
          /\ prop'.events = <<>>
          /\ prop'.data = NoData
  ]_vars

\* two segments of A of different lengths were refused one after the other
\* and lie in one chain, in the order of their arrival
C21_Witness ==
  /\ Len(pkts) >= 5
  /\ pkts[Len(pkts)].src = EpA
  /\ pkts[Len(pkts) - 1].src = EpA
  /\ pkts[Len(pkts)].seq = pkts[Len(pkts) - 1].seq
  /\ Len(pkts[Len(pkts) - 1].segment) = 1
  /\ Len(pkts[Len(pkts)].segment) = 2
  /\ \E k \in DOMAIN FlowSsn.seg_map_ :
       /\ Len(FlowSsn.seg_map_[k]) = 2
       /\ FlowSsn.seg_map_[k][1].data = pkts[Len(pkts) - 1].segment
       /\ FlowSsn.seg_map_[k][2].data = pkts[Len(pkts)].segment
  /\ prop.data = NoData
  /\ FlowSsn.status_ = "ESTABLISHED"

\* ------------------------------------------------------------------------
\* A flow picked up in the middle: the first packet need not be a SYN
\* ------------------------------------------------------------------------

\* packets the flow is followed for
MaxLatePkts == 3

\* the n-th packet: SYN, SYN|ACK or ACK without payload, from A or from B
LatePackets(n) ==
  {FlowPkt(n, e[1], e[2], f, q, 0) :
     e \in {<<EpA, EpB>>, <<EpB, EpA>>}, f \in {SYN, SYN + ACK, ACK},
     q \in 0..(SeqMod - 1)}

\* decode(pd, prop) of the next packet of the flow
Late_decode ==
  /\ npkts < MaxLatePkts
  /\ \E pkt \in LatePackets(npkts + 1) :
       /\ Decoded(pkt)
       /\ pkts' = Append(pkts, pkt)
  /\ npkts' = npkts + 1
  /\ UNCHANGED <<keyVars, sendVars, seq_bits, callVars>>
  /\ UNCHANGED <<chanVars, provVars, consVars, kernVars>>

InitLate == Narrow /\ KernIdle /\ KeyIdle /\ SendIdle /\ FlowInit

NextLate == Late_decode

SpecLate == InitLate /\ [][NextLate]_vars

\* the packets so far that are a pure SYN
SynPkts == {i \in DOMAIN pkts : MaskFlags(pkts[i].flags) = SYN}

\* C22: in a Session whose first packet was not a pure SYN, status stays
\* NONE until a pure SYN of the flow arrives; when it arrives, whichever
\* endpoint sends it, the Session moves to SYN_SENT and the stream matching
\* the SYN's source gets its base_seq from the SYN.
C22_LateSyn ==
  (pkts # <<>> /\ MaskFlags(pkts[1].flags) # SYN) =>
    IF SynPkts = {}
      THEN FlowSsn.status_ = "NONE"
      ELSE LET i == CHOOSE j \in SynPkts : \A k \in SynPkts : j <= k
               st == StreamOf(FlowSsn, SideOf(FlowSsn, pkts[i]))
           IN /\ Len(FlowSsn.g_hist) >= 2
              /\ FlowSsn.g_hist[2] = "SYN_SENT"
              /\ FlowSsn.g_base # <<>>
              /\ FlowSsn.g_base[1].side = SideOf(FlowSsn, pkts[i])
              /\ st.has_base_seq_
              /\ st.base_seq_ = pkts[i].seq

\* the slots of the per-event vectors holding entry h
SlotsOf(hs, h) ==
  {<<e, i>> \in Events \X (1..MaxHid) : i \in DOMAIN hs[e] /\ hs[e][i] = h}

\* the ids of the entries the per-event vectors hold
LiveIds(hs) ==
  UNION {{hs[e][i] : i \in DOMAIN hs[e]} \ {0} : e \in Events}

\* C23: after any sequence of on() and clear() calls the ids in
\* handler_map_ are the ids of the non-null entries of the per-event
\* vectors; each of them is in one slot of one vector, that of its event;
\* an id issued is greater than every id issued before, was never issued
\* before and is not the NONE sentinel; clear() leaves every other entry in
\* its slot.
C23_Registry ==
  /\ DOMAIN handler_map_ = LiveIds(handlers_)
  /\ \A h \in DOMAIN handler_map_ :
       /\ Cardinality(SlotsOf(handlers_, h)) = 1
       /\ \A sl \in SlotsOf(handlers_, h) : sl[1] = handler_map_[h]
  /\ DOMAIN handler_map_ \subseteq 1..global_hdlr_id_
  /\ (api_call.op = "on" /\ api_call.arg \in Events) =>
       /\ api_call.ret # HandlerNone
       /\ api_call.ret = global_hdlr_id_
       /\ api_call.ret > api_old[4]
       /\ \A h \in DOMAIN api_old[3] : h < api_call.ret
       /\ clear_true[api_call.ret] = 0
       /\ SlotsOf(api_old[1], api_call.ret) = {}
       /\ SlotsOf(handlers_, api_call.ret) =
            {<<api_call.arg, Len(handlers_[api_call.arg])>>}
       /\ \A e \in Events : \A i \in DOMAIN api_old[1][e] :
            handlers_[e][i] = api_old[1][e][i]
  /\ api_call.op = "clear" =>
       \A e \in Events :
         /\ Len(handlers_[e]) = Len(api_old[1][e])
         /\ \A i \in DOMAIN api_old[1][e] :
              api_old[1][e][i] # api_call.arg =>
                handlers_[e][i] = api_old[1][e][i]

\* the first of three entries of one event has just been cleared: the two
\* others are still in the second and the third slot
C23_Witness ==
  /\ api_call.op = "clear"
  /\ api_call.ret = TRUE
  /\ \E e \in Events :
       /\ Len(handlers_[e]) = 3
       /\ handlers_[e][1] = 0
       /\ handlers_[e][2] # 0
       /\ handlers_[e][3] # 0
       /\ api_old[1][e][1] = api_call.arg

\* ------------------------------------------------------------------------
\* One flow followed packet by packet: the two directions and seg_map_
\* ------------------------------------------------------------------------

\* the port of the endpoint that sent the bytes of a parked segment
OwnerPort(sg) == sg.data[1] \div 100

\* C24: a segment one direction has parked is looked up, removed and
\* delivered only by packets of that direction: the decode of a packet of
\* the opposite direction leaves it in seg_map_ under its key and publishes
\* none of its bytes.
C24_Isolation ==
  [][(/\ pkts' # pkts
      /\ make_key(pkts'[Len(pkts')].src, pkts'[Len(pkts')].dst)
           \in DOMAIN ssn_table_) =>
       LET pkt == pkts'[Len(pkts')]
           old == SsnBefore(pkt)
           new == SsnAfter(pkt)
       IN /\ \A k \in DOMAIN old.seg_map_ :
               \A i \in DOMAIN old.seg_map_[k] :
                 OwnerPort(old.seg_map_[k][i]) # pkt.src.port =>
                   /\ k \in DOMAIN new.seg_map_
                   /\ old.seg_map_[k][i] \in Range(new.seg_map_[k])
          /\ prop'.data # NoData =>
               \A j \in DOMAIN prop'.data :
                 prop'.data[j] \div 100 = pkt.src.port
  ]_vars

\* ------------------------------------------------------------------------
\* The worker of the kernel and the slots of the channel
\* ------------------------------------------------------------------------

\* the slots that are neither free, nor queued, nor in the producer's hand:
\* pulled by the worker and not released
HeldSlots == Slots \ (ch_free \cup Range(ch_queue) \cup {p_d})

\* C25: run() releases every slot it pulled before it pulls the next one:
\* the worker holds at most one slot, and a producer with packets left to
\* send finds a free slot or a packet the running worker has yet to pull.
C25_Recycling ==
  /\ Cardinality(HeldSlots) <= 1
  /\ (p_pc = "retain" /\ p_i < send_count_ /\ wpc = "pull") =>
       (ch_free # {} \/ ch_queue # <<>>)
====
